---- MODULE Spec2Model ----
(***************************************************************************)
(* Model of the transaction codec and signer of rust-web3                  *)
(* (src/types/transaction_request.rs) and of the confirmation tracker      *)
(* driven by examples/log_with_confirmations.rs.                           *)
(*                                                                         *)
(* Option<T> is modelled as a sequence: <<>> is None, <<x>> is Some(x).    *)
(* U256 values are naturals; u64 values, whose overflow matters, are       *)
(* 8 little-endian bytes.  RLP data are sequences of bytes (0..255).       *)
(***************************************************************************)
EXTENDS Integers, Sequences, FiniteSets, TLC

VARIABLES
    tx,          \* the RawTransactionRequest under work
    sig,         \* the ethkey Signature handed to with_signature: [r, s, v]
    checked,     \* TRUE: the build panics on integer overflow; FALSE: it wraps
    op,          \* the operation applied last
    arg,         \* its input, when it is not tx (bytes to decode, a signed tx)
    out,         \* its result
    status,      \* tracker: Pending, Accumulating, Confirmed, Dropped
    confirmationsSeen,     \* tracker: the confirmation count
    lastObservedBlock,     \* tracker: <<>> or <<n>>, the block last signalled
    requiredConfirmations, \* tracker: the depth asked for
    inclusion,   \* tracker: <<>> or <<B>>, the block of the receipt last fetched
    misses,      \* tracker: consecutive signals that found no receipt
    head,        \* chain: the current block number
    receipt,     \* chain: <<>> or <<B>>, the block holding the receipt
    reorgs,      \* chain: how many times the receipt has vanished
    attemptCap,  \* tracker: <<>> or <<k>>, the caller's bound on fruitless polls
    prev         \* history: the tracker's state before the last signal

codecVars == <<tx, sig, checked, op, arg, out>>
trackerVars == <<status, confirmationsSeen, lastObservedBlock, requiredConfirmations,
                 inclusion, misses, head, receipt, reorgs, attemptCap, prev>>
vars == <<tx, sig, checked, op, arg, out, status, confirmationsSeen, lastObservedBlock,
          requiredConfirmations, inclusion, misses, head, receipt, reorgs, attemptCap,
          prev>>

None == <<>>
Some(x) == <<x>>

----------------------------------------------------------------------------
(* u64 arithmetic on 8 little-endian bytes *)

\* a u64 is 8 bytes
U64Bytes == 8

RECURSIVE LEBytes(_, _)
LEBytes(n, k) == IF k = 0 THEN <<>> ELSE <<n % 256>> \o LEBytes(n \div 256, k - 1)

\* the u64 of a small natural
U64(n) == LEBytes(n, U64Bytes)

U64Max == [i \in 1..U64Bytes |-> 255]

RECURSIVE AddFrom(_, _, _, _)
\* ripple-carry sum from byte i on
AddFrom(a, b, i, carry) ==
    IF i > Len(a) THEN <<carry>>
    ELSE LET s == a[i] + b[i] + carry
         IN  <<s % 256>> \o AddFrom(a, b, i + 1, s \div 256)

\* sum of two equally long little-endian numbers, one byte longer
AddLE(a, b, carry) == AddFrom(a, b, 1, carry)

\* a + b in u64: the wrapped value and whether it overflowed
U64Add(a, b) ==
    LET w == AddLE(a, b, 0)
    IN  [val |-> SubSeq(w, 1, U64Bytes), ovf |-> w[U64Bytes + 1] # 0]

\* n * 2 in u64
U64Mul2(n) == U64Add(n, n)

RECURSIVE SubFrom(_, _, _, _)
\* ripple-borrow difference from byte i on
SubFrom(a, b, i, borrow) ==
    IF i > Len(a) THEN <<>>
    ELSE LET d == a[i] - b[i] - borrow
         IN  IF d < 0 THEN <<d + 256>> \o SubFrom(a, b, i + 1, 1)
             ELSE <<d>> \o SubFrom(a, b, i + 1, 0)

\* a - b for a >= b, little-endian, with borrow
SubLE(a, b, borrow) == SubFrom(a, b, 1, borrow)

U64Sub(a, b) == SubLE(a, b, 0)

\* n / 2 in u64
U64Half(n) ==
    [i \in 1..U64Bytes |->
        (n[i] \div 2) + (IF i < U64Bytes THEN (n[i + 1] % 2) * 128 ELSE 0)]

RECURSIVE GeqLE(_, _, _)
\* a >= b, comparing from the most significant byte (index k) down
GeqLE(a, b, k) ==
    IF k = 0 THEN TRUE
    ELSE IF a[k] # b[k] THEN a[k] > b[k]
    ELSE GeqLE(a, b, k - 1)

U64Geq(a, b) == GeqLE(a, b, U64Bytes)

U64IsZero(a) == \A i \in 1..U64Bytes : a[i] = 0

----------------------------------------------------------------------------
(* the rlp crate: encoding *)

\* H160: an Address is 20 bytes
AddrLen == 20

\* b without its leading zero bytes
StripZeros(b) ==
    IF \A i \in 1..Len(b) : b[i] = 0 THEN <<>>
    ELSE SubSeq(b, CHOOSE i \in 1..Len(b) : b[i] # 0 /\ \A j \in 1..(i - 1) : b[j] = 0, Len(b))

RECURSIVE BE(_)
\* minimal big-endian bytes of a natural (the empty string for zero)
BE(n) == IF n = 0 THEN <<>> ELSE Append(BE(n \div 256), n % 256)

Reverse(s) == [i \in 1..Len(s) |-> s[Len(s) + 1 - i]]

\* a u64's big-endian bytes without the leading zero bytes
U64BE(u) == StripZeros(Reverse(u))

\* encoder().encode_value: a byte string
EncodeValue(b) ==
    IF Len(b) = 1 /\ b[1] < 128 THEN b
    ELSE IF Len(b) < 56 THEN <<128 + Len(b)>> \o b
    ELSE <<183 + Len(BE(Len(b)))>> \o BE(Len(b)) \o b

\* a finished list around its payload
EncodeList(payload) ==
    IF Len(payload) < 56 THEN <<192 + Len(payload)>> \o payload
    ELSE <<247 + Len(BE(Len(payload)))>> \o BE(Len(payload)) \o payload

EncodeU256(n) == EncodeValue(BE(n))
EncodeU64(u) == EncodeValue(U64BE(u))
EncodeU8(n) == IF n # 0 THEN EncodeValue(<<n>>) ELSE EncodeValue(<<>>)
EncodeAddress(a) == EncodeValue(a)
EncodeBytes(b) == EncodeValue(b)

\* impl Encodable for Option<T>: None is an empty list, Some(x) a list of one.
\* o holds the encoding of x.
EncodeOption(o) ==
    IF o = None THEN EncodeList(<<>>) ELSE EncodeList(o[1])

EncodeOptionU256(o) == EncodeOption([i \in 1..Len(o) |-> EncodeU256(o[i])])
EncodeOptionAddress(o) == EncodeOption([i \in 1..Len(o) |-> EncodeAddress(o[i])])
EncodeOptionBytes(o) == EncodeOption([i \in 1..Len(o) |-> EncodeBytes(o[i])])

RECURSIVE ConcatTo(_, _)
ConcatTo(ss, k) == IF k = 0 THEN <<>> ELSE ConcatTo(ss, k - 1) \o ss[k]

\* the items of ss one after the other
Concat(ss) == ConcatTo(ss, Len(ss))

\* RlpStream: begin_list(n) followed by the appended items, then as_raw().
\* The list closes once n items are in; later items follow it; an unclosed
\* list has no header yet.
StreamList(n, items) ==
    IF Len(items) >= n
    THEN EncodeList(Concat(SubSeq(items, 1, n))) \o Concat(SubSeq(items, n + 1, Len(items)))
    ELSE Concat(items)

\* tiny_keccak::keccak256, an injective digest of its input
keccak256(b) == <<"keccak256", b>>

----------------------------------------------------------------------------
(* the rlp crate: decoding *)

Ok(v) == [ok |-> TRUE, val |-> v, err |-> ""]
Err(e) == [ok |-> FALSE, val |-> <<>>, err |-> e]

RECURSIVE FromBE(_)
FromBE(b) == IF b = <<>> THEN 0 ELSE FromBE(SubSeq(b, 1, Len(b) - 1)) * 256 + b[Len(b)]

\* BasicDecoder::payload_info: header length, value length, list or data
PayloadInfo(b) ==
    IF b = <<>> THEN Err("RlpIsTooShort")
    ELSE LET f == b[1] IN
         IF f < 128 THEN Ok([hl |-> 0, vl |-> 1, list |-> FALSE])
         ELSE IF f < 184 THEN Ok([hl |-> 1, vl |-> f - 128, list |-> FALSE])
         ELSE IF f < 192 THEN
              IF Len(b) < 1 + (f - 183) THEN Err("RlpIsTooShort")
              ELSE Ok([hl |-> 1 + (f - 183), vl |-> FromBE(SubSeq(b, 2, 1 + (f - 183))),
                       list |-> FALSE])
         ELSE IF f < 248 THEN Ok([hl |-> 1, vl |-> f - 192, list |-> TRUE])
         ELSE IF Len(b) < 1 + (f - 247) THEN Err("RlpIsTooShort")
              ELSE Ok([hl |-> 1 + (f - 247), vl |-> FromBE(SubSeq(b, 2, 1 + (f - 247))),
                       list |-> TRUE])

\* Rlp::is_list
IsList(b) == b # <<>> /\ b[1] >= 192

\* the bytes of the value an item holds
Payload(b) ==
    LET i == PayloadInfo(b).val IN SubSeq(b, i.hl + 1, i.hl + i.vl)

RECURSIVE Items(_)
\* the items a list payload holds, each with its header; stops at a broken item.
\* (The header and the rest are bound by set constructors, so each is worked
\* out once.)
Items(p) ==
    IF p = <<>> THEN <<>>
    ELSE CHOOSE its \in UNION {
             IF ~i.ok \/ i.val.hl + i.val.vl > Len(p) THEN {<<>>}
             ELSE {<<SubSeq(p, 1, i.val.hl + i.val.vl)>> \o Items(rest) :
                     rest \in {SubSeq(p, i.val.hl + i.val.vl + 1, Len(p))}}
             : i \in {PayloadInfo(p)}} : TRUE

\* Rlp::item_count
ItemCount(b) ==
    IF IsList(b) THEN Ok(Len(Items(Payload(b)))) ELSE Err("RlpExpectedToBeList")

\* Rlp::at, index from 0
At(b, index) ==
    IF ~IsList(b) THEN Err("RlpExpectedToBeList")
    ELSE LET its == Items(Payload(b)) IN
         IF index < Len(its) THEN Ok(its[index + 1]) ELSE Err("RlpIsTooShort")

\* decoder().decode_value: the data of an item that is no list
DecodeValue(b) ==
    IF IsList(b) THEN Err("RlpExpectedToBeData")
    ELSE IF ~PayloadInfo(b).ok THEN Err("RlpIsTooShort")
    ELSE Ok(Payload(b))

DecodeU256(b) ==
    LET d == DecodeValue(b) IN
    IF ~d.ok THEN d
    ELSE IF d.val # <<>> /\ d.val[1] = 0 THEN Err("RlpInvalidIndirection")
    ELSE IF Len(d.val) > 32 THEN Err("RlpIsTooBig")
    ELSE Ok(FromBE(d.val))

DecodeU64(b) ==
    LET d == DecodeValue(b) IN
    IF ~d.ok THEN d
    ELSE IF Len(d.val) = 1 /\ d.val[1] = 0 THEN Err("RlpInvalidIndirection")
    ELSE IF Len(d.val) > U64Bytes THEN Err("RlpIsTooBig")
    ELSE IF d.val # <<>> /\ d.val[1] = 0 THEN Err("RlpInvalidIndirection")
    ELSE Ok(Reverse(d.val) \o [i \in 1..(U64Bytes - Len(d.val)) |-> 0])

DecodeAddress(b) ==
    LET d == DecodeValue(b) IN
    IF ~d.ok THEN d
    ELSE IF Len(d.val) < AddrLen THEN Err("RlpIsTooShort")
    ELSE IF Len(d.val) > AddrLen THEN Err("RlpIsTooBig")
    ELSE Ok(d.val)

DecodeBytes(b) == DecodeValue(b)

\* impl Decodable for Option<T>: the first step, the list's only item if any
DecodeOption(b) ==
    LET n == ItemCount(b) IN
    IF ~n.ok THEN n
    ELSE IF n.val = 0 THEN Ok(None)
    ELSE IF n.val = 1 THEN Ok(Some(At(b, 0).val))
    ELSE Err("RlpIncorrectListLen")

\* Some(x) of a decoded x, or its error
OkSome(x) == IF x.ok THEN Ok(Some(x.val)) ELSE x

\* (Here and below a set constructor binds an intermediate result, so that it
\* is worked out once.)
DecodeOptionU256(b) ==
    CHOOSE r \in {IF ~o.ok \/ o.val = None THEN o ELSE OkSome(DecodeU256(o.val[1])) :
                    o \in {DecodeOption(b)}} : TRUE

DecodeOptionU64(b) ==
    CHOOSE r \in {IF ~o.ok \/ o.val = None THEN o ELSE OkSome(DecodeU64(o.val[1])) :
                    o \in {DecodeOption(b)}} : TRUE

DecodeOptionAddress(b) ==
    CHOOSE r \in {IF ~o.ok \/ o.val = None THEN o ELSE OkSome(DecodeAddress(o.val[1])) :
                    o \in {DecodeOption(b)}} : TRUE

DecodeOptionBytes(b) ==
    CHOOSE r \in {IF ~o.ok \/ o.val = None THEN o ELSE OkSome(DecodeBytes(o.val[1])) :
                    o \in {DecodeOption(b)}} : TRUE

\* Rlp::val_at for each field type: the item, then its value
ValAtOptionU256(d, i) ==
    CHOOSE r \in {IF a.ok THEN DecodeOptionU256(a.val) ELSE a : a \in {At(d, i)}} : TRUE
ValAtOptionU64(d, i) ==
    CHOOSE r \in {IF a.ok THEN DecodeOptionU64(a.val) ELSE a : a \in {At(d, i)}} : TRUE
ValAtOptionAddress(d, i) ==
    CHOOSE r \in {IF a.ok THEN DecodeOptionAddress(a.val) ELSE a : a \in {At(d, i)}} : TRUE
ValAtOptionBytes(d, i) ==
    CHOOSE r \in {IF a.ok THEN DecodeOptionBytes(a.val) ELSE a : a \in {At(d, i)}} : TRUE
ValAtU256(d, i) ==
    CHOOSE r \in {IF a.ok THEN DecodeU256(a.val) ELSE a : a \in {At(d, i)}} : TRUE
ValAtU64(d, i) ==
    CHOOSE r \in {IF a.ok THEN DecodeU64(a.val) ELSE a : a \in {At(d, i)}} : TRUE

----------------------------------------------------------------------------
(* types::transaction_request *)

Min(S) == CHOOSE i \in S : \A j \in S : i <= j

\* the first error of a run of `?` reads, or none
FirstErr(f) ==
    LET bad == {i \in 1..Len(f) : ~f[i].ok}
    IN  IF bad = {} THEN None ELSE Some(f[Min(bad)])

\* the decoder with its length test weakened to "fewer than six"
RawTransactionRequest_decode_AtLeastSix(d) ==
    LET n == ItemCount(d) IN
    IF ~n.ok THEN n
    ELSE IF n.val < 6 THEN Err("RlpIncorrectListLen")
    ELSE CHOOSE r \in
           {IF FirstErr(f) # None THEN FirstErr(f)[1]
            ELSE Ok([nonce |-> f[1].val, gas_price |-> f[2].val, gas |-> f[3].val,
                      to |-> f[4].val, value |-> f[5].val, data |-> f[6].val,
                      chain_id |-> f[7].val]) :
            f \in {<< ValAtOptionU256(d, 0), ValAtOptionU256(d, 1), ValAtOptionU256(d, 2),
                     ValAtOptionAddress(d, 3), ValAtOptionU256(d, 4), ValAtOptionBytes(d, 5),
                     ValAtOptionU64(d, 6) >>}} : TRUE

\* impl Decodable for RawTransactionRequest
RawTransactionRequest_decode(d) ==
    LET n == ItemCount(d) IN
    IF ~n.ok THEN n
    ELSE IF n.val # 6 THEN Err("RlpIncorrectListLen")
    ELSE CHOOSE r \in
           {IF FirstErr(f) # None THEN FirstErr(f)[1]
            ELSE Ok([nonce |-> f[1].val, gas_price |-> f[2].val, gas |-> f[3].val,
                      to |-> f[4].val, value |-> f[5].val, data |-> f[6].val,
                      chain_id |-> f[7].val]) :
            f \in {<< ValAtOptionU256(d, 0), ValAtOptionU256(d, 1), ValAtOptionU256(d, 2),
                     ValAtOptionAddress(d, 3), ValAtOptionU256(d, 4), ValAtOptionBytes(d, 5),
                     ValAtOptionU64(d, 6) >>}} : TRUE

\* the unsigned encoding with the list always begun for six items
rlp_append_unsigned_transaction_AlwaysSix(t) ==
    StreamList(6,
               << EncodeOptionU256(t.nonce), EncodeOptionU256(t.gas_price),
                  EncodeOptionU256(t.gas), EncodeOptionAddress(t.to),
                  EncodeOptionU256(t.value), EncodeOptionBytes(t.data) >>
               \o (IF t.chain_id # None
                   THEN << EncodeU64(t.chain_id[1]), EncodeU8(0), EncodeU8(0) >>
                   ELSE << >>))

\* RawTransactionRequest::rlp_append_unsigned_transaction, then as_raw()
rlp_append_unsigned_transaction(t) ==
    StreamList(IF t.chain_id = None THEN 6 ELSE 9,
               << EncodeOptionU256(t.nonce), EncodeOptionU256(t.gas_price),
                  EncodeOptionU256(t.gas), EncodeOptionAddress(t.to),
                  EncodeOptionU256(t.value), EncodeOptionBytes(t.data) >>
               \o (IF t.chain_id # None
                   THEN << EncodeU64(t.chain_id[1]), EncodeU8(0), EncodeU8(0) >>
                   ELSE << >>))

rlp_bytes(t) == rlp_append_unsigned_transaction(t)

hash(t) == keccak256(rlp_append_unsigned_transaction(t))

Panic(why) == [ok |-> FALSE, val |-> <<>>, err |-> why]

\* signature::add_chain_replay_protection: v + (35 + n * 2), or v + 27.
\* An overflowing step panics in a build with overflow checks and wraps otherwise.
add_chain_replay_protection(v, cid) ==
    IF cid = None
    THEN LET r == U64Add(v, U64(27))
         IN  IF r.ovf /\ checked THEN Panic("attempt to add with overflow") ELSE Ok(r.val)
    ELSE LET m == U64Mul2(cid[1])
             a == U64Add(U64(35), m.val)
             r == U64Add(v, a.val)
         IN  IF m.ovf /\ checked THEN Panic("attempt to multiply with overflow")
             ELSE IF (a.ovf \/ r.ovf) /\ checked THEN Panic("attempt to add with overflow")
             ELSE Ok(r.val)

\* UnverifiedTransaction::is_unsigned
is_unsigned(u) == u.r = 0 /\ u.s = 0

\* the signed encoding with the chain id appended as an item of its own
rlp_append_sealed_transaction_WithChainId(u) ==
    StreamList(9,
               << EncodeOptionU256(u.unsigned.nonce), EncodeOptionU256(u.unsigned.gas_price),
                  EncodeOptionU256(u.unsigned.gas), EncodeOptionAddress(u.unsigned.to),
                  EncodeOptionU256(u.unsigned.value), EncodeOptionBytes(u.unsigned.data) >>
               \o (IF u.unsigned.chain_id # None
                   THEN << EncodeU64(u.unsigned.chain_id[1]) >> ELSE << >>)
               \o << EncodeU64(u.v), EncodeU256(u.r), EncodeU256(u.s) >>)

\* UnverifiedTransaction::rlp_append_sealed_transaction, then as_raw()
rlp_append_sealed_transaction(u) ==
    StreamList(9,
               << EncodeOptionU256(u.unsigned.nonce), EncodeOptionU256(u.unsigned.gas_price),
                  EncodeOptionU256(u.unsigned.gas), EncodeOptionAddress(u.unsigned.to),
                  EncodeOptionU256(u.unsigned.value), EncodeOptionBytes(u.unsigned.data),
                  EncodeU64(u.v), EncodeU256(u.r), EncodeU256(u.s) >>)

\* RawTransactionRequest::with_signature
with_signature(t, sg) ==
    IF t.chain_id = None THEN Panic("unwrap on None")
    ELSE LET v == add_chain_replay_protection(U64(sg.v), Some(t.chain_id[1]))
         IN  IF ~v.ok THEN v
             ELSE Ok(rlp_append_sealed_transaction(
                      [unsigned |-> t, v |-> v.val, r |-> sg.r, s |-> sg.s, hash |-> hash(t)]))

\* impl Decodable for UnverifiedTransaction
UnverifiedTransaction_decode(d) ==
    LET n == ItemCount(d) IN
    IF ~n.ok THEN n
    ELSE IF n.val # 9 THEN Err("RlpIncorrectListLen")
    ELSE CHOOSE r \in
           {IF FirstErr(f) # None THEN FirstErr(f)[1]
            ELSE Ok([unsigned |-> [nonce |-> f[1].val, gas_price |-> f[2].val,
                                    gas |-> f[3].val, to |-> f[4].val, value |-> f[5].val,
                                    data |-> f[6].val, chain_id |-> f[7].val],
                      v |-> f[8].val, r |-> f[9].val, s |-> f[10].val,
                      hash |-> keccak256(d)]) :
            f \in {<< ValAtOptionU256(d, 0), ValAtOptionU256(d, 1), ValAtOptionU256(d, 2),
                     ValAtOptionAddress(d, 3), ValAtOptionU256(d, 4), ValAtOptionBytes(d, 5),
                     ValAtOptionU64(d, 6), ValAtU64(d, 6), ValAtU256(d, 7), ValAtU256(d, 8) >>}} : TRUE

\* chain_id() with the bound off by one: v > 35
chain_id_Above35(u) ==
    IF is_unsigned(u) THEN Some(u.v)
    ELSE IF U64Geq(u.v, U64(36)) THEN Some(U64Half(U64Sub(u.v, U64(35))))
    ELSE None

\* UnverifiedTransaction::chain_id
chain_id(u) ==
    IF is_unsigned(u) THEN Some(u.v)
    ELSE IF U64Geq(u.v, U64(35)) THEN Some(U64Half(U64Sub(u.v, U64(35))))
    ELSE None

----------------------------------------------------------------------------
(* the inputs the codec is run on *)

\* data of 0..MaxDataLen bytes
MaxDataLen == 2
\* decoder inputs are lists of 0..MaxItems items
MaxItems == 10
\* signed transactions carry v in 27..27+MaxV and 35..35+MaxV, among others
MaxV == 2

ZeroAddress == [i \in 1..AddrLen |-> 0]
Address5 == [i \in 1..AddrLen |-> IF i = AddrLen THEN 5 ELSE 0]

\* 2^63 - 19, 2^63 - 18, 2^63: the chain ids around the overflow of 35 + n * 2
U64Big(low, high) == [i \in 1..U64Bytes |-> IF i = 1 THEN low ELSE IF i = U64Bytes THEN high ELSE
                                             IF high = 128 THEN 0 ELSE 255]
BigChainIds == {U64Big(237, 127), U64Big(238, 127), U64Big(0, 128), U64Max}
SmallChainIds == {U64(0), U64(1), U64(1338)}

\* the transaction of tests::should_get_tx
BaseTx ==
    [nonce |-> Some(0), gas_price |-> Some(42), gas |-> Some(69), to |-> Some(ZeroAddress),
     value |-> Some(1337), data |-> Some(<<>>), chain_id |-> None]

Shapes ==
    {BaseTx,
     [nonce |-> None, gas_price |-> None, gas |-> None, to |-> None,
      value |-> None, data |-> None, chain_id |-> None]}
    \cup {[BaseTx EXCEPT !.nonce = x] : x \in {None, Some(1)}}
    \cup {[BaseTx EXCEPT !.gas_price = x] : x \in {None, Some(0)}}
    \cup {[BaseTx EXCEPT !.gas = x] : x \in {None, Some(21000)}}
    \cup {[BaseTx EXCEPT !.to = x] : x \in {None, Some(Address5)}}
    \cup {[BaseTx EXCEPT !.value = x] : x \in {None, Some(5000000)}}
    \cup {[BaseTx EXCEPT !.data = x] :
             x \in {None} \cup {Some([i \in 1..n |-> i]) : n \in 1..MaxDataLen}}

TxSet ==
    {[t EXCEPT !.chain_id = c] : t \in Shapes, c \in {None, Some(U64(1338))}}
    \cup {[BaseTx EXCEPT !.chain_id = Some(c)] : c \in SmallChainIds \cup BigChainIds}

\* ethkey signatures: r, s and the recovery bit v
SigSet ==
    {[r |-> 1, s |-> 2, v |-> 0], [r |-> 1, s |-> 2, v |-> 1],
     [r |-> 0, s |-> 0, v |-> 0], [r |-> 0, s |-> 300, v |-> 1]}

VSet ==
    {U64(27 + k) : k \in 0..MaxV} \cup {U64(35 + k) : k \in 0..MaxV}
    \cup {U64(0), U64(1), U64(34), U64(2711), U64(2712), U64Max}

\* signed transactions, one for each v
UnverifiedSet(t, sg) ==
    {[unsigned |-> t, v |-> v, r |-> sg.r, s |-> sg.s, hash |-> hash(t)] : v \in VSet}

\* lists of n items, each an Option (wrapped TRUE) or a bare value
ListOf(n, wrapped) ==
    EncodeList(Concat([i \in 1..n |->
        IF wrapped THEN EncodeOptionU256(Some(i)) ELSE EncodeU256(i)]))

\* the signed list of u with v written as an Option, as chain_id is read
SealedWithOptionV(u) ==
    StreamList(9,
               << EncodeOptionU256(u.unsigned.nonce), EncodeOptionU256(u.unsigned.gas_price),
                  EncodeOptionU256(u.unsigned.gas), EncodeOptionAddress(u.unsigned.to),
                  EncodeOptionU256(u.unsigned.value), EncodeOptionBytes(u.unsigned.data),
                  EncodeOption(Some(EncodeU64(u.v))), EncodeU256(u.r), EncodeU256(u.s) >>)

\* what the decoders are run on: encodings of t, lists of every length, a string
DecodeInputs(t, sg) ==
    {rlp_bytes(t), EncodeBytes(<<1, 2, 3>>)}
    \cup {SealedWithOptionV(u) : u \in UnverifiedSet(t, sg)}
    \cup {rlp_append_sealed_transaction(u) : u \in UnverifiedSet(t, sg)}
    \cup {ListOf(n, w) : n \in 0..MaxItems, w \in BOOLEAN}

----------------------------------------------------------------------------
(* the codec's operations, each applied to the transaction under work *)

TrackerIdle ==
    /\ status = "Pending" /\ confirmationsSeen = 0 /\ lastObservedBlock = None
    /\ requiredConfirmations = 0 /\ inclusion = None /\ misses = 0 /\ head = 0
    /\ receipt = None /\ reorgs = 0 /\ attemptCap = None
    /\ prev = [status |-> "Pending", confirmationsSeen |-> 0, inclusion |-> None]

CodecIdle == op = "idle" /\ arg = None /\ out = None

Init ==
    /\ tx \in TxSet
    /\ sig \in SigSet
    /\ checked \in BOOLEAN
    /\ CodecIdle
    /\ TrackerIdle

Call(name, input, result) ==
    /\ op' = name
    /\ arg' = input
    /\ out' = result
    /\ UNCHANGED <<tx, sig, checked>>
    /\ UNCHANGED trackerVars

RlpBytes == op = "idle" /\ Call("rlp_bytes", None, Ok(rlp_bytes(tx)))

Hash == op = "idle" /\ Call("hash", None, Ok(hash(tx)))

WithSignature == op = "idle" /\ Call("with_signature", None, with_signature(tx, sig))

AddProtection ==
    /\ op = "idle"
    /\ \E b \in {0, 1}, c \in {None, tx.chain_id} :
        Call("add_chain_replay_protection", <<b, c>>, add_chain_replay_protection(U64(b), c))

DecodeRaw ==
    /\ op = "idle"
    /\ \E d \in DecodeInputs(tx, sig) :
        Call("RawTransactionRequest::decode", d, RawTransactionRequest_decode(d))

DecodeSigned ==
    /\ op = "idle"
    /\ \E d \in DecodeInputs(tx, sig) :
        Call("UnverifiedTransaction::decode", d, UnverifiedTransaction_decode(d))

Seal ==
    /\ op = "idle"
    /\ \E u \in UnverifiedSet(tx, sig) :
        Call("rlp_append", u, Ok(rlp_append_sealed_transaction(u)))

ChainId ==
    /\ op = "idle"
    /\ \E u \in UnverifiedSet(tx, sig) :
        Call("chain_id", u, Ok(chain_id(u)))

\* the call returns and the caller goes on
Return ==
    /\ op # "idle"
    /\ op' = "idle"
    /\ arg' = None
    /\ out' = None
    /\ UNCHANGED <<tx, sig, checked>>
    /\ UNCHANGED trackerVars

Next ==
    \/ RlpBytes
    \/ Hash
    \/ WithSignature
    \/ AddProtection
    \/ DecodeRaw
    \/ DecodeSigned
    \/ Seal
    \/ ChainId
    \/ Return

Spec == Init /\ [][Next]_vars

----------------------------------------------------------------------------
(* properties of the codec and signer *)

\* exact sums, on numbers two bytes wider than a u64
Wide(u) == u \o <<0, 0>>
WideAdd(a, b) == SubSeq(AddLE(a, b, 0), 1, Len(a))

\* recoveryBit + 35 + 2 * chainId, or recoveryBit + 27, without wrapping
ExpectedV(b, cid) ==
    IF cid = None THEN WideAdd(Wide(U64(b)), Wide(U64(27)))
    ELSE WideAdd(WideAdd(Wide(U64(b)), Wide(U64(35))), WideAdd(Wide(cid[1]), Wide(cid[1])))

\* the v of a signed serialization: its seventh item
SignedV(bytes) == ValAtU64(bytes, 6)

\* bytes are one whole list and nothing more
WholeList(b) ==
    /\ IsList(b)
    /\ PayloadInfo(b).ok
    /\ PayloadInfo(b).val.hl + PayloadInfo(b).val.vl = Len(b)

\* the first six items of b read back as the six base fields of t, in order
BaseFieldsInOrder(b, t) ==
    /\ ValAtOptionU256(b, 0) = Ok(t.nonce)
    /\ ValAtOptionU256(b, 1) = Ok(t.gas_price)
    /\ ValAtOptionU256(b, 2) = Ok(t.gas)
    /\ ValAtOptionAddress(b, 3) = Ok(t.to)
    /\ ValAtOptionU256(b, 4) = Ok(t.value)
    /\ ValAtOptionBytes(b, 5) = Ok(t.data)

\* C1: the v assembled by with_signature is recoveryBit + 35 + 2 * chainId
\* when the transaction has a chain id and recoveryBit + 27 when it has none.
C1_ReplayProtectedV ==
    op = "with_signature" =>
        /\ out.ok
        /\ SignedV(out.val).ok
        /\ Wide(SignedV(out.val).val) = ExpectedV(sig.v, tx.chain_id)

\* C2: signing a transaction without chain id succeeds with v = recoveryBit + 27,
\* and the signed transaction is bound to no chain.
C2_LegacySigning ==
    (op = "with_signature" /\ tx.chain_id = None) =>
        /\ out.ok
        /\ SignedV(out.val) = Ok(U64(sig.v + 27))
        /\ chain_id([unsigned |-> tx, v |-> U64(sig.v + 27), r |-> 1, s |-> 1,
                     hash |-> hash(tx)]) = None

\* the nine items of a signed serialization of u, in order
SignedShape(b, u) ==
    /\ WholeList(b)
    /\ ItemCount(b) = Ok(9)
    /\ BaseFieldsInOrder(b, u)
    /\ ValAtU256(b, 7).ok
    /\ ValAtU256(b, 8).ok

\* C3: every signed serialization is a list of exactly nine items, nonce,
\* gasPrice, gasLimit, to, value, data, v, r, s, whether or not the
\* transaction has a chain id; the chain id is no item of its own.
C3_SignedIsNineItems ==
    /\ (op = "rlp_append" /\ out.ok) =>
          /\ SignedShape(out.val, arg.unsigned)
          /\ SignedV(out.val) = Ok(arg.v)
          /\ ValAtU256(out.val, 7) = Ok(arg.r)
          /\ ValAtU256(out.val, 8) = Ok(arg.s)
    /\ (op = "with_signature" /\ out.ok) =>
          /\ SignedShape(out.val, tx)
          /\ SignedV(out.val).ok
          /\ ValAtU256(out.val, 7) = Ok(sig.r)
          /\ ValAtU256(out.val, 8) = Ok(sig.s)

C3_Witness ==
    /\ op = "rlp_append"
    /\ arg.unsigned.chain_id = None
    /\ arg.s # 0
    /\ ItemCount(out.val) = Ok(9)

\* the unsigned encoding of t: six items, or nine ending in chainId, 0, 0
UnsignedShape(b, t) ==
    /\ WholeList(b)
    /\ BaseFieldsInOrder(b, t)
    /\ t.chain_id = None => ItemCount(b) = Ok(6)
    /\ t.chain_id # None =>
          /\ ItemCount(b) = Ok(9)
          /\ ValAtU64(b, 6) = Ok(t.chain_id[1])
          /\ At(b, 7) = Ok(<<128>>)
          /\ At(b, 8) = Ok(<<128>>)

CanonicalU256(o) == IF o = None THEN <<128>> ELSE EncodeValue(BE(o[1]))
CanonicalString(o) == IF o = None THEN <<128>> ELSE EncodeValue(o[1])

\* C5: each base field of the unsigned encoding is one byte string: a minimal
\* big-endian integer, a 20-byte address, the empty string for an absent
\* field; none is a nested list.
C5_CanonicalFields ==
    op = "rlp_bytes" =>
        /\ \A i \in 0..5 : At(out.val, i).ok /\ ~IsList(At(out.val, i).val)
        /\ At(out.val, 0) = Ok(CanonicalU256(tx.nonce))
        /\ At(out.val, 1) = Ok(CanonicalU256(tx.gas_price))
        /\ At(out.val, 2) = Ok(CanonicalU256(tx.gas))
        /\ At(out.val, 3) = Ok(CanonicalString(tx.to))
        /\ At(out.val, 4) = Ok(CanonicalU256(tx.value))
        /\ At(out.val, 5) = Ok(CanonicalString(tx.data))

\* C6: decoding the unsigned encoding of a transaction without chain id
\* succeeds and gives the transaction back.
C6_RoundTrip ==
    (op = "RawTransactionRequest::decode" /\ tx.chain_id = None /\ arg = rlp_bytes(tx)) =>
        out = Ok(tx)

\* C7: the unsigned decoder turns down every list that has not six items, and
\* the signed decoder every list that has not nine, with RlpIncorrectListLen;
\* neither accepts a list of another length.
C7_DispatchOnCount ==
    /\ (op = "RawTransactionRequest::decode" /\ ItemCount(arg).ok) =>
          /\ ItemCount(arg).val # 6 => out = Err("RlpIncorrectListLen")
          /\ out.ok => ItemCount(arg).val = 6
    /\ (op = "UnverifiedTransaction::decode" /\ ItemCount(arg).ok) =>
          /\ ItemCount(arg).val # 9 => out = Err("RlpIncorrectListLen")
          /\ out.ok => ItemCount(arg).val = 9

C7_Witness ==
    /\ op = "RawTransactionRequest::decode"
    /\ \E u \in UnverifiedSet(tx, sig) : arg = rlp_append_sealed_transaction(u)
    /\ ItemCount(arg) = Ok(9)
    /\ out = Err("RlpIncorrectListLen")

\* v >= 35, read off the bytes of v
AtLeast35(v) == v[1] >= 35 \/ \E i \in 2..U64Bytes : v[i] # 0

\* C8: chain_id() of a signed transaction is v itself when r = 0 and s = 0,
\* else (v - 35) / 2 rounded down when v >= 35, else none.
C8_RecoveredChainId ==
    op = "chain_id" =>
        /\ out.ok
        /\ (arg.r = 0 /\ arg.s = 0) => out.val = Some(arg.v)
        /\ (~(arg.r = 0 /\ arg.s = 0) /\ AtLeast35(arg.v)) =>
              /\ out.val # None
              /\ LET twice == WideAdd(WideAdd(Wide(out.val[1]), Wide(out.val[1])),
                                       Wide(U64(35)))
                 IN  Wide(arg.v) \in {twice, WideAdd(twice, Wide(U64(1)))}
        /\ (~(arg.r = 0 /\ arg.s = 0) /\ ~AtLeast35(arg.v)) => out.val = None

C8_Witness ==
    /\ op = "chain_id"
    /\ arg.s # 0
    /\ arg.v = U64(2712)
    /\ out.val = Some(U64(1338))

----------------------------------------------------------------------------
(* the confirmation tracker, web3::confirm::wait_for_transaction_confirmation *)

\* blocks are numbered up to MaxBlock
MaxBlock == 13
\* a signal may come up to MaxSkip blocks after the one before
MaxSkip == 2
\* the receipt vanishes at most MaxReorgs times
MaxReorgs == 2
\* callers ask for 0..MaxRequired confirmations, or for the example's
MaxRequired == 3
\* a caller's attempt cap, when it gives one
MaxAttempts == 2
\* the confirmations the example asks for
ExampleConfirmations == 12

\* blocks counted without the inclusion block
Confirmations_Exclusive(current, B) == current - B

\* confirmations of a receipt in block B when the chain is at block current
Confirmations(current, B) == current - B + 1

\* an absence that leaves the count as it was
CountOnAbsence_Kept(count) == count

\* the count once the receipt is found absent
CountOnAbsence(count) == 0

StatusOnReceipt(count, required) ==
    IF count >= required THEN "Confirmed" ELSE "Accumulating"

\* fruitless polls are counted only against a caller's cap
Fruitless(m, cap) == IF cap # None THEN m + 1 ELSE m

StatusOnAbsence(fruitless, cap) ==
    IF cap # None /\ fruitless >= cap[1] THEN "Dropped" ELSE "Pending"

\* the tracker's step on a new-block signal: block n, the receipt fetched r
OnSignal(n, r) ==
    /\ prev' = [status |-> status, confirmationsSeen |-> confirmationsSeen,
                inclusion |-> inclusion]
    /\ lastObservedBlock' = Some(n)
    /\ inclusion' = r
    /\ IF r = None
       THEN /\ confirmationsSeen' = CountOnAbsence(confirmationsSeen)
            /\ misses' = Fruitless(misses, attemptCap)
            /\ status' = StatusOnAbsence(Fruitless(misses, attemptCap), attemptCap)
       ELSE /\ confirmationsSeen' = Confirmations(n, r[1])
            /\ misses' = 0
            /\ status' = StatusOnReceipt(Confirmations(n, r[1]), requiredConfirmations)
    /\ UNCHANGED <<requiredConfirmations, attemptCap>>

\* where the receipt can be once the chain is at block n: it stays, it is
\* mined in one of the new blocks, or a reorganization takes it away
ReceiptAt(n) ==
    IF receipt = None THEN {None} \cup {Some(B) : B \in (head + 1)..n}
    ELSE {receipt} \cup (IF reorgs < MaxReorgs THEN {None} ELSE {})

\* a tracker that keeps watching a confirmed transaction
Watching_AfterConfirmed == status # "Dropped"

Watching == status \in {"Pending", "Accumulating"}

Observe(n, r) ==
    /\ head' = n
    /\ receipt' = r
    /\ reorgs' = IF receipt # None /\ r = None THEN reorgs + 1 ELSE reorgs
    /\ OnSignal(n, r)
    /\ UNCHANGED codecVars

\* a new block is signalled; blocks may have been skipped
NewBlock ==
    /\ Watching
    /\ \E n \in (head + 1)..(IF head + MaxSkip < MaxBlock THEN head + MaxSkip ELSE MaxBlock) :
         \E r \in ReceiptAt(n) : Observe(n, r)

\* the poll interval ends with no new block
PollTick ==
    /\ Watching
    /\ \E r \in ReceiptAt(head) : Observe(head, r)

\* main: wait_for_transaction_confirmation(transport, hash, 1 s, 12), and the
\* same call for other depths and attempt caps
TrackerInit ==
    /\ tx = BaseTx /\ sig \in {[r |-> 1, s |-> 2, v |-> 0]} /\ checked = TRUE /\ CodecIdle
    /\ status = "Pending"
    /\ confirmationsSeen = 0
    /\ lastObservedBlock = None
    /\ requiredConfirmations \in 0..MaxRequired \cup {ExampleConfirmations}
    /\ attemptCap \in {None, Some(MaxAttempts)}
    /\ inclusion = None
    /\ misses = 0
    /\ head = 1
    /\ receipt \in {None, Some(1)}
    /\ reorgs = 0
    /\ prev = [status |-> "Pending", confirmationsSeen |-> 0, inclusion |-> None]

TrackerNext == NewBlock \/ PollTick

TrackerSpec == TrackerInit /\ [][TrackerNext]_vars

\* C9: with 3 confirmations required, the receipt in block N and no reorg,
\* the tracker is Confirmed exactly from the signal of block N + 2 on, and in
\* no state before it.
C9_ConfirmedAtThirdBlock ==
    (requiredConfirmations = 3 /\ reorgs = 0) =>
        (status = "Confirmed" <=>
            (inclusion # None /\ lastObservedBlock[1] >= inclusion[1] + 2))

C9_Witness ==
    /\ requiredConfirmations = 3
    /\ reorgs = 0
    /\ status = "Confirmed"
    /\ receipt # None
    /\ lastObservedBlock = Some(receipt[1] + 2)
    /\ confirmationsSeen = 3
    /\ prev.status = "Accumulating"
    /\ prev.confirmationsSeen = 2

Rank(st) ==
    CASE st = "Pending" -> 0
      [] st = "Accumulating" -> 1
      [] OTHER -> 2

Terminal(st) == st \in {"Confirmed", "Dropped"}

\* the reorg reset: the receipt is found absent while Accumulating
ReorgReset ==
    /\ status = "Accumulating"
    /\ status' = "Pending"
    /\ inclusion' = None
    /\ confirmationsSeen' = 0

Assembled(bytes) ==
    [unsigned |-> tx, v |-> SignedV(bytes).val, r |-> sig.r, s |-> sig.s,
     hash |-> hash(tx)]

\* C12: for every u64 chain id c, recovery bit b and signature with r and s
\* not both zero, the v of the signed transaction is b + 35 + 2 * c computed
\* without overflow or wrapping, and chain_id() of that transaction is c.
C12_ChainIdRoundTrip ==
    (op = "with_signature" /\ tx.chain_id # None /\ ~(sig.r = 0 /\ sig.s = 0)) =>
        /\ out.ok
        /\ SignedV(out.val).ok
        /\ Wide(SignedV(out.val).val) = ExpectedV(sig.v, tx.chain_id)
        /\ chain_id(Assembled(out.val)) = tx.chain_id

====
